---- MODULE Spec2Model ----
(***************************************************************************)
(* Model of chapter-19/mcp_optimization_strategies.py: the context-aware   *)
(* cache, the capability-aware load balancer, the DAG request orchestrator *)
(* and the performance monitor.  Each component has its own specification  *)
(* (SpecDag, SpecCache, SpecLB, SpecCallers, SpecMon); the components      *)
(* share no state, so a specification leaves the other components' state   *)
(* at its constructed value.                                               *)
(***************************************************************************)
EXTENDS Integers, Sequences, FiniteSets, TLC

VARIABLES
    \* RequestOrchestrator and one execute_dag call
    pc,              \* position of execute_dag: loop, gather, returned, raised_cycle, raised_task
    dag,             \* the dag argument: task name -> set of dependency names
    completed,       \* completed: task name -> result
    remaining,       \* keys of the remaining dict
    ready,           \* the ready list of the current wave
    status,          \* per task of the dag: pending, running, done, failed (position of execute_fn(t))
    batch_results,   \* what gather has collected: task -> result
    wave,            \* per task: value of total_batches when gather scheduled its callback (0: never)
    error,           \* the type of the exception execute_dag raised ("None": none)
    total_requests,
    total_batches,
    \* ContextAwareCache
    max_size,
    store,           \* _store: cache key -> value
    access_order,    \* _access_order: list of cache keys, least recently used first
    hits,
    misses,
    cache_op,        \* the last get or put call: its arguments, its key, what it returned, whether it raised
    last_put,        \* history: the arguments of the last put call that stored its value
    use_order,       \* history: the stored keys by their last put or hit, oldest first
    put_log,         \* history: the keys put so far, while every call was a put of a new key
    fresh,           \* history: every call so far was a put of a key never put before
    gets,            \* history: number of get calls
    puts,            \* history: number of put calls
    \* CapabilityAwareLoadBalancer
    servers,         \* name -> [capabilities, current_load, total_handled]
    server_order,    \* the keys of servers in dict order (order of first registration)
    lb_op,           \* the last call on the balancer: its argument and what it returned
    callers,         \* per caller of the balancer: where it is and the server it was given
    \* PerformanceMonitor
    window,
    samples,         \* _samples: list of latencies, oldest first
    mon_op,          \* the last call on the monitor and what it returned
    recorded         \* history: number of record calls

dagVars == <<pc, dag, completed, remaining, ready, status, batch_results, wave,
             error, total_requests, total_batches>>

cacheVars == <<max_size, store, access_order, hits, misses, cache_op, last_put,
               use_order, put_log, fresh, gets, puts>>

lbVars == <<servers, server_order, lb_op>>

callerVars == <<callers>>

monVars == <<window, samples, mon_op, recorded>>

vars == <<dagVars, cacheVars, lbVars, callerVars, monVars>>

(***************************************************************************)
(* ContextAwareCache                                                       *)
(***************************************************************************)

\* max_size: int = 256
DefaultMaxSize == 256

\* Largest max_size a cache is constructed with.
MaxSize == 3

\* Most get calls and most put calls made on one cache.
MaxGets == 4
MaxPuts == 5

Queries == {"q1", "q2"}

Values == {"v1", "v2"}

\* The values of a context: the int 1 or 2, the list [1], the tuple (1,).
IntValue(n) == [type |-> "int", items |-> <<n>>]
ListValue(items) == [type |-> "list", items |-> items]
TupleValue(items) == [type |-> "tuple", items |-> items]

\* A context is a dict in insertion order: a sequence of <<key, value>> items.
Contexts ==
    { << <<"a", IntValue(1)>>, <<"b", IntValue(2)>> >>,
      << <<"b", IntValue(2)>>, <<"a", IntValue(1)>> >>,
      << <<"a", ListValue(<<1>>)>> >>,
      << <<"a", TupleValue(<<1>>)>> >> }

\* The context keys in string order.
KeyRank(k) == CASE k = "a" -> 1 [] k = "b" -> 2

Range(s) == {s[i] : i \in 1..Len(s)}

\* The JSON text json.dumps writes for a value: a number for an int, an
\* array for a list and for a tuple.
JsonValue(v) ==
    IF v.type = "int" THEN [json |-> "number", items |-> v.items]
    ELSE [json |-> "array", items |-> v.items]

\* json.dumps(context): the items as JSON text, in the order of the dict.
JsonItems(context) ==
    [i \in 1..Len(context) |-> <<context[i][1], JsonValue(context[i][2])>>]

\* json.dumps(context, sort_keys=True): the items in the order of their keys.
CtxSig_unsorted(context) == JsonItems(context)

CtxSig(context) ==
    CHOOSE s \in [1..Len(context) -> Range(JsonItems(context))] :
        /\ Range(s) = Range(JsonItems(context))
        /\ \A i \in 1..(Len(s) - 1) : KeyRank(s[i][1]) < KeyRank(s[i + 1][1])

\* f"{query}::{ctx_sig}"
MakeKey(query, context) == <<query, CtxSig(context)>>

\* _make_key on every input of the model.
CacheKey == [q \in Queries, c \in Contexts |-> MakeKey(q, c)]

NoKey == <<>>

EmptyStore == [k \in {} |-> "None"]

NoCacheOp ==
    [op |-> "none", query |-> "None", context |-> <<>>, key |-> NoKey,
     value |-> "None", present |-> FALSE, raised |-> FALSE, ret |-> "None",
     evicted |-> NoKey]

NoPut == [query |-> "None", context |-> <<>>, value |-> "None"]

\* list.remove(key): without the first item equal to key
Remove(order, key) ==
    LET i == CHOOSE j \in 1..Len(order) :
                 order[j] = key /\ \A h \in 1..(j - 1) : order[h] # key
    IN  SubSeq(order, 1, i - 1) \o SubSeq(order, i + 1, Len(order))

\* The key by its last use, oldest first (history).
Touch(order, key) ==
    IF key \in Range(order) THEN Append(Remove(order, key), key)
    ELSE Append(order, key)

Drop(order, key) == IF key \in Range(order) THEN Remove(order, key) ELSE order

LruOf(order) == IF order = <<>> THEN NoKey ELSE Head(order)

\* ContextAwareCache(max_size)
ContextAwareCacheInit(ms) ==
    /\ max_size = ms
    /\ store = EmptyStore
    /\ access_order = <<>>
    /\ hits = 0
    /\ misses = 0
    /\ cache_op = NoCacheOp
    /\ last_put = NoPut
    /\ use_order = <<>>
    /\ put_log = <<>>
    /\ fresh = TRUE
    /\ gets = 0
    /\ puts = 0

\* What get returns: self._store[key] on a hit, None on a miss.
GetReturn(st, key) == IF key \in DOMAIN st THEN st[key] ELSE "None"

\* self._access_order.remove(key); self._access_order.append(key)
HitOrder(order, key) == Append(Remove(order, key), key)

\* get(query, context)
Get(query, context) ==
    LET key == CacheKey[query, context] IN
    /\ gets < MaxGets
    /\ gets' = gets + 1
    /\ IF key \in DOMAIN store
       THEN /\ hits' = hits + 1
            /\ access_order' = HitOrder(access_order, key)
            /\ use_order' = Touch(use_order, key)
            /\ cache_op' = [NoCacheOp EXCEPT !.op = "get", !.query = query,
                               !.context = context, !.key = key,
                               !.present = TRUE,
                               !.ret = GetReturn(store, key)]
            /\ UNCHANGED misses
       ELSE /\ misses' = misses + 1
            /\ cache_op' = [NoCacheOp EXCEPT !.op = "get", !.query = query,
                               !.context = context, !.key = key,
                               !.ret = GetReturn(store, key)]
            /\ UNCHANGED <<hits, access_order, use_order>>
    /\ put_log' = <<>>
    /\ fresh' = FALSE
    /\ UNCHANGED <<max_size, store, puts, last_put>>
    /\ UNCHANGED <<dagVars, lbVars, callerVars, monVars>>

\* if len(self._store) >= self.max_size and key not in self._store:
MustEvict(st, ms, key) == Cardinality(DOMAIN st) >= ms /\ key \notin DOMAIN st

\* oldest = self._access_order.pop(0): the item popped and the list left
PopOldest_last(order) ==
    [oldest |-> order[Len(order)], rest |-> SubSeq(order, 1, Len(order) - 1)]

PopOldest(order) == [oldest |-> order[1], rest |-> SubSeq(order, 2, Len(order))]

\* if key not in self._access_order: self._access_order.append(key)
PutOrder(order, key) == IF key \notin Range(order) THEN Append(order, key) ELSE order

\* put(query, context, value)
Put(query, context, value) ==
    LET key    == CacheKey[query, context]
        evict  == MustEvict(store, max_size, key)
        op     == [NoCacheOp EXCEPT !.op = "put", !.query = query,
                      !.context = context, !.key = key, !.value = value,
                      !.present = key \in DOMAIN store]
        isNew  == fresh /\ key \notin Range(put_log)
    IN
    /\ puts < MaxPuts
    /\ puts' = puts + 1
    /\ fresh' = isNew
    /\ put_log' = IF isNew THEN Append(put_log, key) ELSE <<>>
    /\ IF evict /\ access_order = <<>>
       THEN \* pop from empty list: IndexError, nothing was changed
            /\ cache_op' = [op EXCEPT !.raised = TRUE]
            /\ UNCHANGED <<store, access_order, use_order, last_put>>
       ELSE LET oldest == PopOldest(access_order).oldest
                order1 == IF evict THEN PopOldest(access_order).rest ELSE access_order
                \* del self._store[oldest]
                keys1  == IF evict THEN DOMAIN store \ {oldest} ELSE DOMAIN store
            IN  /\ store' = [k \in keys1 \cup {key} |->
                                IF k = key THEN value ELSE store[k]]
                /\ access_order' = PutOrder(order1, key)
                /\ use_order' = Touch(IF evict THEN Drop(use_order, oldest)
                                      ELSE use_order, key)
                /\ cache_op' = [op EXCEPT !.evicted = IF evict THEN oldest ELSE NoKey]
                /\ last_put' = [query |-> query, context |-> context, value |-> value]
    /\ UNCHANGED <<max_size, hits, misses, gets>>
    /\ UNCHANGED <<dagVars, lbVars, callerVars, monVars>>

(***************************************************************************)
(* CapabilityAwareLoadBalancer                                             *)
(***************************************************************************)

ServerNames == {"s1", "s2"}

Capabilities == {"search", "classify"}

\* Most requests one server is given.
MaxHandled == 3

NoServers == [n \in {} |-> {}]

NoLbOp == [op |-> "none", arg |-> {}, ret |-> "None"]

NoCallers == [c \in {} |-> {}]

\* CapabilityAwareLoadBalancer(): self.servers = {}
CapabilityAwareLoadBalancerInit ==
    /\ servers = NoServers
    /\ server_order = <<>>
    /\ lb_op = NoLbOp

\* register_server(name, capabilities)
RegisterServer_keepLoad(name, capabilities) ==
    /\ servers' = [n \in DOMAIN servers \cup {name} |->
                      IF n = name
                      THEN [capabilities |-> capabilities,
                            current_load |-> IF name \in DOMAIN servers
                                             THEN servers[name].current_load
                                             ELSE 0,
                            total_handled |-> 0]
                      ELSE servers[n]]
    /\ server_order' = IF name \in DOMAIN servers THEN server_order
                       ELSE Append(server_order, name)
    /\ lb_op' = [op |-> "register", arg |-> name, ret |-> "None"]
    /\ UNCHANGED <<dagVars, cacheVars, monVars>>

RegisterServer(name, capabilities) ==
    /\ servers' = [n \in DOMAIN servers \cup {name} |->
                      IF n = name
                      THEN [capabilities |-> capabilities, current_load |-> 0,
                            total_handled |-> 0]
                      ELSE servers[n]]
    /\ server_order' = IF name \in DOMAIN servers THEN server_order
                       ELSE Append(server_order, name)
    /\ lb_op' = [op |-> "register", arg |-> name, ret |-> "None"]
    /\ UNCHANGED <<dagVars, cacheVars, monVars>>

\* set(required_caps).issubset(info["capabilities"])
HasCapabilities_any(required_caps, info) ==
    required_caps = {} \/ required_caps \cap info.capabilities # {}

HasCapabilities(required_caps, info) == required_caps \subseteq info.capabilities

\* candidates: the names of the servers that qualify, in dict order
Candidates_all(required_caps) == server_order

Candidates(required_caps) ==
    SelectSeq(server_order, LAMBDA n : HasCapabilities(required_caps, servers[n]))

\* candidates.sort(key=lambda c: c[1]): a stable sort by current_load
SortByLoad_none(cands) == cands

SortByLoad_most(cands) ==
    IF cands = <<>> THEN <<>>
    ELSE LET m == CHOOSE i \in 1..Len(cands) :
                      \A j \in 1..Len(cands) :
                          servers[cands[j]].current_load <= servers[cands[i]].current_load
         IN  <<cands[m]>> \o SubSeq(cands, 1, m - 1) \o SubSeq(cands, m + 1, Len(cands))

RECURSIVE SortByLoad(_)
SortByLoad(cands) ==
    IF cands = <<>> THEN <<>>
    ELSE LET rest == SortByLoad(Tail(cands))
             c    == Head(cands)
             \* c goes before the first item whose load is not smaller
             k    == Cardinality({i \in 1..Len(rest) :
                         \A j \in 1..i :
                             servers[rest[j]].current_load < servers[c].current_load})
         IN  SubSeq(rest, 1, k) \o <<c>> \o SubSeq(rest, k + 1, Len(rest))

\* select_server(required_caps)
SelectServer(required_caps) ==
    LET candidates == Candidates(required_caps) IN
    /\ IF candidates = <<>>
       THEN /\ lb_op' = [op |-> "select", arg |-> required_caps, ret |-> "None"]
            /\ UNCHANGED <<servers, server_order>>
       ELSE LET chosen == SortByLoad(candidates)[1] IN
            /\ servers[chosen].total_handled < MaxHandled
            /\ servers' = [servers EXCEPT
                              ![chosen].current_load = @ + 1,
                              ![chosen].total_handled = @ + 1]
            /\ lb_op' = [op |-> "select", arg |-> required_caps, ret |-> chosen]
            /\ UNCHANGED server_order
    /\ UNCHANGED <<dagVars, cacheVars, monVars>>

\* release(server_name)
Release_unfloored(server_name) ==
    /\ IF server_name \in DOMAIN servers
       THEN servers' = [servers EXCEPT ![server_name].current_load = @ - 1]
       ELSE UNCHANGED servers
    /\ lb_op' = [op |-> "release", arg |-> server_name, ret |-> "None"]
    /\ UNCHANGED server_order
    /\ UNCHANGED <<dagVars, cacheVars, monVars>>

Release_reset(server_name) ==
    /\ IF server_name \in DOMAIN servers
       THEN servers' = [servers EXCEPT ![server_name].current_load = 0]
       ELSE UNCHANGED servers
    /\ lb_op' = [op |-> "release", arg |-> server_name, ret |-> "None"]
    /\ UNCHANGED server_order
    /\ UNCHANGED <<dagVars, cacheVars, monVars>>

Release_both(server_name) ==
    /\ IF server_name \in DOMAIN servers
       THEN servers' = [servers EXCEPT
                           ![server_name].current_load =
                               IF @ - 1 > 0 THEN @ - 1 ELSE 0,
                           ![server_name].total_handled =
                               IF @ - 1 > 0 THEN @ - 1 ELSE 0]
       ELSE UNCHANGED servers
    /\ lb_op' = [op |-> "release", arg |-> server_name, ret |-> "None"]
    /\ UNCHANGED server_order
    /\ UNCHANGED <<dagVars, cacheVars, monVars>>

Release(server_name) ==
    /\ IF server_name \in DOMAIN servers
       THEN servers' = [servers EXCEPT ![server_name].current_load =
                           IF @ - 1 > 0 THEN @ - 1 ELSE 0]
       ELSE UNCHANGED servers
    /\ lb_op' = [op |-> "release", arg |-> server_name, ret |-> "None"]
    /\ UNCHANGED server_order
    /\ UNCHANGED <<dagVars, cacheVars, monVars>>

(***************************************************************************)
(* Callers of the load balancer: coroutines on one event loop, each        *)
(*     srv = lb.select_server(caps)                                        *)
(*     if srv: await asyncio.sleep(...); lb.release(srv)                   *)
(* A method call has no await in it, so it runs to its end in one step.    *)
(***************************************************************************)

CallerNames == {"c1", "c2", "c3"}

\* No caller has run yet.
CallersInit ==
    callers = [c \in CallerNames |-> [pc |-> "start", srv |-> "None"]]

\* lb.register_server(name, capabilities), before the callers are started
RegisterBeforeCallers(name, capabilities) ==
    /\ \A c \in CallerNames : callers[c].pc = "start"
    /\ RegisterServer(name, capabilities)
    /\ UNCHANGED callers

\* srv = lb.select_server(caps); a caller given a server suspends at the
\* await, a caller given None is done
CallerSelect(c, caps) ==
    /\ callers[c].pc = "start"
    /\ SelectServer(caps)
    /\ callers' = [callers EXCEPT ![c] =
                      [pc  |-> IF lb_op'.ret = "None" THEN "done" ELSE "suspended",
                       srv |-> lb_op'.ret]]

\* the caller is resumed: lb.release(srv)
CallerRelease(c) ==
    /\ callers[c].pc = "suspended"
    /\ Release(callers[c].srv)
    /\ callers' = [callers EXCEPT ![c].pc = "done"]

(***************************************************************************)
(* PerformanceMonitor                                                      *)
(***************************************************************************)

\* window: int = 50
DefaultWindow == 50

\* Largest window a monitor is constructed with.
MaxWindow == 2

\* Most record calls made on one monitor.
MaxRecords == 6

\* The latencies recorded, in hundredths of a second: 1.0, 1.2, 1.21, 1.5
\* and 1.8.
Latencies == {100, 120, 121, 150, 180}

\* ret is what the call returned: None, true, false, a latency, or that it
\* raised; latency is the latency returned, in hundredths.
NoMonOp == [op |-> "none", ret |-> "None", latency |-> 0]

\* PerformanceMonitor(window)
PerformanceMonitorInit(w) ==
    /\ window = w
    /\ samples = <<>>
    /\ mon_op = NoMonOp
    /\ recorded = 0

\* The slice s[i:j] of a list, i and j as Python reads them: a negative index
\* counts from the end, -0 is 0, and both are clipped to the list.
PyIndex(s, i, neg) ==
    LET k == IF neg /\ i > 0 THEN Len(s) - i ELSE i
    IN  IF k < 0 THEN 0 ELSE IF k > Len(s) THEN Len(s) ELSE k

\* s[-n:]
SliceFromEnd(s, n) == SubSeq(s, PyIndex(s, n, TRUE) + 1, Len(s))

\* s[-n:-m]
SliceBetween(s, n, m) == SubSeq(s, PyIndex(s, n, TRUE) + 1, PyIndex(s, m, TRUE))

\* self._samples.append(latency); if len(self._samples) > self.window * 2:
\*     self._samples = self._samples[-self.window * 2:]
Truncate(s, w) == IF Len(s) > w * 2 THEN SliceFromEnd(s, w * 2) ELSE s

\* record(latency)
Record(latency) ==
    /\ recorded < MaxRecords
    /\ recorded' = recorded + 1
    /\ samples' = Truncate(Append(samples, latency), window)
    /\ mon_op' = [NoMonOp EXCEPT !.op = "record"]
    /\ UNCHANGED window
    /\ UNCHANGED <<dagVars, cacheVars, lbVars, callerVars>>

(***************************************************************************)
(* Python floats: IEEE 754 binary64, round to nearest, ties to even.  A    *)
(* positive float is [m, e], its value m * 2^e with 2^52 <= m < 2^53; m is *)
(* a natural number written in base 2^15, least significant limb first.    *)
(***************************************************************************)

Limb == 2 ^ 15

RECURSIVE Strip(_)
Strip(a) ==
    IF a # <<>> /\ a[Len(a)] = 0 THEN Strip(SubSeq(a, 1, Len(a) - 1)) ELSE a

RECURSIVE BigAdd(_, _, _)
BigAdd(a, b, carry) ==
    IF a = <<>> /\ b = <<>> THEN (IF carry = 0 THEN <<>> ELSE <<carry>>)
    ELSE LET t == (IF a = <<>> THEN 0 ELSE Head(a))
                  + (IF b = <<>> THEN 0 ELSE Head(b)) + carry
         IN  <<t % Limb>> \o BigAdd(IF a = <<>> THEN a ELSE Tail(a),
                                    IF b = <<>> THEN b ELSE Tail(b), t \div Limb)

\* a * k + carry, for k <= 2^15
RECURSIVE BigMulSmall(_, _, _)
BigMulSmall(a, k, carry) ==
    IF a = <<>> THEN (IF carry = 0 THEN <<>> ELSE <<carry>>)
    ELSE LET t == Head(a) * k + carry
         IN  <<t % Limb>> \o BigMulSmall(Tail(a), k, t \div Limb)

RECURSIVE BigMul(_, _)
BigMul(a, b) ==
    IF b = <<>> THEN <<>>
    ELSE BigAdd(BigMulSmall(a, Head(b), 0), <<0>> \o BigMul(a, Tail(b)), 0)

\* quotient and remainder of a by k, for k <= 2^15
RECURSIVE BigDivSmall(_, _)
BigDivSmall(a, k) ==
    IF a = <<>> THEN [q |-> <<>>, r |-> 0]
    ELSE LET hi == BigDivSmall(Tail(a), k)
             t  == hi.r * Limb + Head(a)
         IN  [q |-> <<t \div k>> \o hi.q, r |-> t % k]

BigLess(a, b) ==
    LET x == Strip(a)
        y == Strip(b)
    IN  \/ Len(x) < Len(y)
        \/ /\ Len(x) = Len(y)
           /\ \E i \in 1..Len(x) :
                  /\ x[i] < y[i]
                  /\ \A j \in (i + 1)..Len(x) : x[j] = y[j]

\* the number of binary digits of a
BitLen(a) ==
    LET x == Strip(a)
    IN  IF x = <<>> THEN 0
        ELSE 15 * (Len(x) - 1)
             + (CHOOSE n \in 1..15 : 2 ^ (n - 1) <= x[Len(x)] /\ x[Len(x)] < 2 ^ n)

\* a * 2^k
ShiftLeft(a, k) == [i \in 1..(k \div 15) |-> 0] \o BigMulSmall(a, 2 ^ (k % 15), 0)

\* floor(a / 2^k), and whether anything was cut off
ShiftRight(a, k) ==
    LET n == IF k \div 15 < Len(a) THEN k \div 15 ELSE Len(a)
        d == BigDivSmall(SubSeq(a, n + 1, Len(a)), 2 ^ (k % 15))
    IN  [q |-> d.q, inexact |-> d.r # 0 \/ \E i \in 1..n : a[i] # 0]

\* The float nearest to (n + f) * 2^e, where 0 <= f < 1 and f # 0 iff
\* inexact; n has more than 53 binary digits.
RoundToFloat(n, inexact, e) ==
    LET s    == BitLen(n) - 53
        t    == ShiftRight(n, s - 1)
        q    == BigDivSmall(t.q, 2)
        tie  == ~(t.inexact \/ inexact)
        up   == q.r = 1 /\ (~tie \/ Head(q.q) % 2 = 1)
        m    == Strip(IF up THEN BigAdd(q.q, <<1>>, 0) ELSE q.q)
    IN  IF BitLen(m) > 53 THEN [m |-> Strip(BigDivSmall(m, 2).q), e |-> e + s + 1]
        ELSE [m |-> m, e |-> e + s]

\* The float a decimal literal of h hundredths denotes: 1.21 is Float(121).
Float(h) ==
    LET d == BigDivSmall(ShiftLeft(<<h>>, 75), 100)
    IN  RoundToFloat(d.q, d.r # 0, -75)

\* x * y
FloatMul(x, y) == RoundToFloat(BigMul(x.m, y.m), FALSE, x.e + y.e)

\* x > y
FloatGreater(x, y) == x.e > y.e \/ (x.e = y.e /\ BigLess(y.m, x.m))

\* statistics.mean(data) of floats: the exact sum, divided by the count,
\* rounded once; data is a list of hundredths and is not empty.
RECURSIVE ExactSum(_, _)
ExactSum(fs, emin) ==
    IF fs = <<>> THEN <<>>
    ELSE BigAdd(ShiftLeft(Head(fs).m, Head(fs).e - emin), ExactSum(Tail(fs), emin), 0)

Mean(data) ==
    LET fs   == [i \in 1..Len(data) |-> Float(data[i])]
        emin == CHOOSE e \in {fs[i].e : i \in 1..Len(fs)} :
                    \A i \in 1..Len(fs) : e <= fs[i].e
        d    == BigDivSmall(ShiftLeft(ExactSum(fs, emin), 15), Len(data))
    IN  RoundToFloat(d.q, d.r # 0, emin - 15)

\* statistics.mean(new) > statistics.mean(old) * 1.2
MeanExceeds(new, old) == FloatGreater(Mean(new), FloatMul(Mean(old), Float(120)))

\* The float 0.0.
FloatZero == [m |-> <<>>, e |-> 0]

\* a / b for ints a >= 0 and b > 0: the float nearest to the quotient.
TrueDiv(a, b) ==
    IF a = 0 THEN FloatZero
    ELSE LET d == BigDivSmall(ShiftLeft(<<a>>, 75), b)
         IN  RoundToFloat(d.q, d.r # 0, -75)

\* ContextAwareCache.hit_rate:
\* total = self.hits + self.misses; return self.hits / total if total else 0.0
HitRate_misses(h, m) == IF h + m # 0 THEN TrueDiv(m, h + m) ELSE FloatZero

HitRate(h, m) == IF h + m # 0 THEN TrueDiv(h, h + m) ELSE FloatZero

\* What regression_detected() returns; statistics.mean of an empty list
\* raises StatisticsError.
RegressionDetected_always(s, w) ==
    LET old == SliceBetween(s, w * 2, w)
        new == SliceFromEnd(s, w)
    IN  IF new = <<>> \/ old = <<>> THEN "raised"
        ELSE IF MeanExceeds(new, old) THEN "true" ELSE "false"

RegressionDetected(s, w) ==
    IF Len(s) < w * 2 THEN "false"
    ELSE LET old == SliceBetween(s, w * 2, w)
             new == SliceFromEnd(s, w)
         IN  IF new = <<>> \/ old = <<>> THEN "raised"
             ELSE IF MeanExceeds(new, old) THEN "true" ELSE "false"

\* A call of regression_detected(): it changes nothing of the monitor.
CallRegressionDetected ==
    /\ mon_op' = [NoMonOp EXCEPT !.op = "regression_detected",
                                 !.ret = RegressionDetected(samples, window)]
    /\ UNCHANGED <<window, samples, recorded>>
    /\ UNCHANGED <<dagVars, cacheVars, lbVars, callerVars>>

\* int(x) of a float x >= 0: the digits after the point are cut off.
RECURSIVE BigToInt(_)
BigToInt(a) == IF a = <<>> THEN 0 ELSE Head(a) + Limb * BigToInt(Tail(a))

IntOfFloat(x) ==
    IF x.e >= 0 THEN BigToInt(ShiftLeft(x.m, x.e))
    ELSE BigToInt(ShiftRight(x.m, 0 - x.e).q)

\* int(0.95 * len(s))
P95Index_last(n) == n - 1

P95Index(n) == IntOfFloat(FloatMul(Float(95), Float(100 * n)))

\* sorted(self._samples): ascending; the floats of two latencies are in the
\* order of the latencies.
RECURSIVE Sorted(_)
Sorted(s) ==
    IF s = <<>> THEN <<>>
    ELSE LET rest == Sorted(Tail(s))
             k    == Cardinality({i \in 1..Len(rest) : rest[i] < Head(s)})
         IN  SubSeq(rest, 1, k) \o <<Head(s)>> \o SubSeq(rest, k + 1, Len(rest))

\* What p95_latency returns; an index outside the list raises IndexError.
P95Latency(s) ==
    IF s = <<>> THEN [ret |-> "float", latency |-> 0]
    ELSE IF P95Index(Len(s)) + 1 \in 1..Len(s)
         THEN [ret |-> "float", latency |-> Sorted(s)[P95Index(Len(s)) + 1]]
         ELSE [ret |-> "raised", latency |-> 0]

\* A read of p95_latency: it changes nothing of the monitor.
CallP95Latency ==
    /\ mon_op' = [op |-> "p95_latency", ret |-> P95Latency(samples).ret,
                  latency |-> P95Latency(samples).latency]
    /\ UNCHANGED <<window, samples, recorded>>
    /\ UNCHANGED <<dagVars, cacheVars, lbVars, callerVars>>

\* The window of the monitors whose p95_latency is read, and the number of
\* sample lists of each length.
P95Window == 12
MaxStride == 4

\* The latencies of n record calls: 1.00 to 1.28 in an order that depends on
\* k, all different when k is odd, with repetitions when k is even.
SampleList(n, k) ==
    [i \in 1..n |-> 100 + ((i * (k + 2)) % (IF k % 2 = 0 THEN 7 ELSE 29))]

(***************************************************************************)
(* RequestOrchestrator                                                     *)
(***************************************************************************)

\* Task names a dag may use, as keys and as dependency names.
Names == {"A", "B", "C", "D"}

\* Every dag over Names: a key may depend on itself, on other keys and on
\* names that are no key.
Dags == UNION {[T -> SUBSET Names] : T \in SUBSET Names}

EmptyMap == [t \in {} |-> {}]

\* raise RuntimeError("Cycle detected in task DAG")
CycleError == "RuntimeError"

\* The types of exception execute_fn(t) may raise: the callback is any
\* coroutine function of the caller.
CallbackErrors == {"RuntimeError", "ValueError"}

\* What execute_fn(t) returns when it does not raise (_sim_tool_call).
ExecuteFnResult_same(t) == [tool |-> "A", ok |-> TRUE]

ExecuteFnResult(t) == [tool |-> t, ok |-> TRUE]

\* all(d in completed for d in deps)
DepsSatisfied_any(deps, comp) == deps = {} \/ \E d \in deps : d \in DOMAIN comp

DepsSatisfied_known(deps, comp) ==
    \A d \in deps \cap DOMAIN dag : d \in DOMAIN comp

DepsSatisfied(deps, comp) == \A d \in deps : d \in DOMAIN comp

\* ready = [t for t, deps in remaining.items() if all(...)]
ReadyTasks(rem, comp) == {t \in rem : DepsSatisfied(dag[t], comp)}

\* RequestOrchestrator(): the counters of a new orchestrator.
RequestOrchestratorInit ==
    /\ total_requests = 0
    /\ total_batches = 0

\* Entry of execute_dag(d, execute_fn): completed = {}, remaining = dict(dag);
\* no callback of the dag has been scheduled.
ExecuteDagEntry(d) ==
    /\ dag = d
    /\ completed = EmptyMap
    /\ remaining = DOMAIN d
    /\ ready = {}
    /\ status = [t \in DOMAIN d |-> "pending"]
    /\ batch_results = EmptyMap
    /\ wave = [t \in DOMAIN d |-> 0]
    /\ error = "None"
    /\ pc = "loop"

\* while remaining: ... is false: return completed
ReturnCompleted ==
    /\ pc = "loop"
    /\ remaining = {}
    /\ pc' = "returned"
    /\ UNCHANGED <<dag, completed, remaining, ready, status, batch_results, wave,
                   total_requests, total_batches>>
    /\ UNCHANGED <<error, cacheVars, lbVars, callerVars, monVars>>

\* if not ready: raise RuntimeError("Cycle detected in task DAG")
RaiseCycle_continue ==
    /\ pc = "loop"
    /\ remaining # {}
    /\ ReadyTasks(remaining, completed) = {}
    /\ UNCHANGED dagVars
    /\ UNCHANGED <<error, cacheVars, lbVars, callerVars, monVars>>

RaiseCycle_return ==
    /\ pc = "loop"
    /\ remaining # {}
    /\ ReadyTasks(remaining, completed) = {}
    /\ pc' = "returned"
    /\ UNCHANGED <<dag, completed, remaining, ready, status, batch_results, wave,
                   total_requests, total_batches>>
    /\ UNCHANGED <<error, cacheVars, lbVars, callerVars, monVars>>

RaiseCycle_early ==
    /\ pc = "loop"
    /\ remaining # {}
    /\ ReadyTasks(remaining, completed) # remaining
    /\ pc' = "raised_cycle"
    /\ error' = CycleError
    /\ UNCHANGED <<dag, completed, remaining, ready, status, batch_results, wave,
                   total_requests, total_batches>>
    /\ UNCHANGED <<cacheVars, lbVars, callerVars, monVars>>

RaiseCycle ==
    /\ pc = "loop"
    /\ remaining # {}
    /\ ReadyTasks(remaining, completed) = {}
    /\ pc' = "raised_cycle"
    /\ error' = CycleError
    /\ UNCHANGED <<dag, completed, remaining, ready, status, batch_results, wave,
                   total_requests, total_batches>>
    /\ UNCHANGED <<cacheVars, lbVars, callerVars, monVars>>

\* self.total_batches += 1; asyncio.gather(*(execute_fn(t) for t in ready)):
\* the callbacks of the wave are scheduled and execute_dag suspends.
StartWave_one ==
    /\ pc = "loop"
    /\ remaining # {}
    /\ ReadyTasks(remaining, completed) # {}
    /\ \E t \in ReadyTasks(remaining, completed) :
        /\ ready' = {t}
        /\ wave' = [wave EXCEPT ![t] = total_batches + 1]
    /\ total_batches' = total_batches + 1
    /\ batch_results' = EmptyMap
    /\ pc' = "gather"
    /\ UNCHANGED <<dag, completed, remaining, status, total_requests>>
    /\ UNCHANGED <<error, cacheVars, lbVars, callerVars, monVars>>

StartWave ==
    /\ pc = "loop"
    /\ remaining # {}
    /\ ReadyTasks(remaining, completed) # {}
    /\ ready' = ReadyTasks(remaining, completed)
    /\ total_batches' = total_batches + 1
    /\ batch_results' = EmptyMap
    /\ wave' = [t \in DOMAIN wave |->
                    IF t \in ReadyTasks(remaining, completed)
                    THEN total_batches + 1 ELSE wave[t]]
    /\ pc' = "gather"
    /\ UNCHANGED <<dag, completed, remaining, status, total_requests>>
    /\ UNCHANGED <<error, cacheVars, lbVars, callerVars, monVars>>

\* The event loop runs the first step of the scheduled callback execute_fn(t).
TaskStart(t) ==
    /\ pc \in {"gather", "raised_task"}
    /\ t \in ready
    /\ status[t] = "pending"
    /\ status' = [status EXCEPT ![t] = "running"]
    /\ UNCHANGED <<pc, dag, completed, remaining, ready, batch_results, wave,
                   total_requests, total_batches>>
    /\ UNCHANGED <<error, cacheVars, lbVars, callerVars, monVars>>

\* execute_fn(t) returns its result to gather.
TaskReturn(t) ==
    /\ pc \in {"gather", "raised_task"}
    /\ t \in ready
    /\ status[t] = "running"
    /\ status' = [status EXCEPT ![t] = "done"]
    /\ batch_results' = [u \in DOMAIN batch_results \cup {t} |->
                            IF u = t THEN ExecuteFnResult(t) ELSE batch_results[u]]
    /\ UNCHANGED <<pc, dag, completed, remaining, ready, wave,
                   total_requests, total_batches>>
    /\ UNCHANGED <<error, cacheVars, lbVars, callerVars, monVars>>

\* execute_fn(t) raises.
TaskRaise(t) ==
    /\ pc \in {"gather", "raised_task"}
    /\ t \in ready
    /\ status[t] = "running"
    /\ status' = [status EXCEPT ![t] = "failed"]
    /\ UNCHANGED <<pc, dag, completed, remaining, ready, batch_results, wave,
                   total_requests, total_batches>>
    /\ UNCHANGED <<error, cacheVars, lbVars, callerVars, monVars>>

\* for task, result in zip(ready, batch_results):
\*     completed[task] = result; del remaining[task]; self.total_requests += 1
RecordBatch ==
    /\ pc = "gather"
    /\ \A t \in ready : status[t] = "done"
    /\ completed' = [t \in DOMAIN completed \cup ready |->
                        IF t \in ready THEN batch_results[t] ELSE completed[t]]
    /\ remaining' = remaining \ ready
    /\ total_requests' = total_requests + Cardinality(ready)
    /\ ready' = {}
    /\ pc' = "loop"
    /\ UNCHANGED <<dag, status, batch_results, wave, total_batches>>
    /\ UNCHANGED <<error, cacheVars, lbVars, callerVars, monVars>>

\* await asyncio.gather(...) raises the first exception of a callback, an
\* exception of any type the callback raises; the other callbacks of the wave
\* are not cancelled.
GatherRaise_skip ==
    /\ pc = "gather"
    /\ \E t \in ready : status[t] = "failed"
    /\ remaining' = remaining \ ready
    /\ ready' = {}
    /\ pc' = "loop"
    /\ UNCHANGED <<dag, completed, status, batch_results, wave,
                   total_requests, total_batches>>
    /\ UNCHANGED <<error, cacheVars, lbVars, callerVars, monVars>>

GatherRaise_partial ==
    /\ pc = "gather"
    /\ \E t \in ready : status[t] = "failed"
    /\ LET done == {t \in ready : status[t] = "done"} IN
        /\ completed' = [t \in DOMAIN completed \cup done |->
                            IF t \in done THEN batch_results[t] ELSE completed[t]]
        /\ total_requests' = total_requests + Cardinality(done)
    /\ pc' = "raised_task"
    /\ \E e \in CallbackErrors : error' = e
    /\ UNCHANGED <<dag, remaining, ready, status, batch_results, wave, total_batches>>
    /\ UNCHANGED <<cacheVars, lbVars, callerVars, monVars>>

GatherRaise ==
    /\ pc = "gather"
    /\ \E t \in ready : status[t] = "failed"
    /\ pc' = "raised_task"
    /\ \E e \in CallbackErrors : error' = e
    /\ UNCHANGED <<dag, completed, remaining, ready, status, batch_results, wave,
                   total_requests, total_batches>>
    /\ UNCHANGED <<cacheVars, lbVars, callerVars, monVars>>

(***************************************************************************)
(* Specifications: one per component, the other components constructed     *)
(* and left alone                                                          *)
(***************************************************************************)

\* A new orchestrator on which execute_dag has just been called.
InitDag ==
    /\ RequestOrchestratorInit
    /\ \E d \in Dags : ExecuteDagEntry(d)
    /\ ContextAwareCacheInit(DefaultMaxSize)
    /\ CapabilityAwareLoadBalancerInit
    /\ callers = NoCallers
    /\ PerformanceMonitorInit(DefaultWindow)

NextDag ==
    \/ ReturnCompleted
    \/ RaiseCycle
    \/ StartWave
    \/ \E t \in Names : TaskStart(t)
    \/ \E t \in Names : TaskReturn(t)
    \/ \E t \in Names : TaskRaise(t)
    \/ RecordBatch
    \/ GatherRaise

SpecDag == InitDag /\ [][NextDag]_vars

\* The event loop runs every scheduled step, and every callback that was
\* started returns or raises.
FairSpecDag == SpecDag /\ WF_vars(NextDag)

\* No execute_dag call is in progress.
ExecuteDagIdle ==
    /\ pc = "idle"
    /\ dag = [t \in {} |-> {}]
    /\ completed = [t \in {} |-> {}]
    /\ remaining = {}
    /\ ready = {}
    /\ status = [t \in {} |-> {}]
    /\ batch_results = [t \in {} |-> {}]
    /\ wave = [t \in {} |-> {}]
    /\ error = "None"
    /\ total_requests = 0
    /\ total_batches = 0

InitCache ==
    /\ \E ms \in 0..MaxSize : ContextAwareCacheInit(ms)
    /\ ExecuteDagIdle
    /\ CapabilityAwareLoadBalancerInit
    /\ callers = NoCallers
    /\ PerformanceMonitorInit(DefaultWindow)

NextCache ==
    \/ \E q \in Queries, c \in Contexts : Get(q, c)
    \/ \E q \in Queries, c \in Contexts, v \in Values : Put(q, c, v)

SpecCache == InitCache /\ [][NextCache]_vars

InitLB ==
    /\ CapabilityAwareLoadBalancerInit
    /\ ContextAwareCacheInit(DefaultMaxSize)
    /\ ExecuteDagIdle
    /\ callers = NoCallers
    /\ PerformanceMonitorInit(DefaultWindow)

\* The three methods called one after the other by one caller.
NextLB ==
    \/ \E n \in ServerNames, caps \in SUBSET Capabilities :
           RegisterServer(n, caps) /\ UNCHANGED callerVars
    \/ \E required \in SUBSET Capabilities :
           SelectServer(required) /\ UNCHANGED callerVars
    \/ \E n \in ServerNames : Release(n) /\ UNCHANGED callerVars

SpecLB == InitLB /\ [][NextLB]_vars

\* Servers are registered, and then select_server is called again and again
\* with the same required capabilities and nothing is released.
InitFresh ==
    /\ CapabilityAwareLoadBalancerInit
    /\ ContextAwareCacheInit(DefaultMaxSize)
    /\ ExecuteDagIdle
    /\ callers = NoCallers
    /\ PerformanceMonitorInit(DefaultWindow)

NextFresh ==
    \/ \E n \in ServerNames, caps \in SUBSET Capabilities :
           /\ lb_op.op # "select"
           /\ RegisterServer(n, caps)
           /\ UNCHANGED callerVars
    \/ \E required \in SUBSET Capabilities :
           /\ lb_op.op = "select" => required = lb_op.arg
           /\ SelectServer(required)
           /\ UNCHANGED callerVars

SpecFresh == InitFresh /\ [][NextFresh]_vars

InitCallers ==
    /\ CapabilityAwareLoadBalancerInit
    /\ CallersInit
    /\ ContextAwareCacheInit(DefaultMaxSize)
    /\ ExecuteDagIdle
    /\ PerformanceMonitorInit(DefaultWindow)

NextCallers ==
    \/ \E n \in ServerNames, caps \in SUBSET Capabilities :
           RegisterBeforeCallers(n, caps)
    \/ \E c \in CallerNames, caps \in SUBSET Capabilities : CallerSelect(c, caps)
    \/ \E c \in CallerNames : CallerRelease(c)

SpecCallers == InitCallers /\ [][NextCallers]_vars

\* A monitor after n record calls that retains all of them: a monitor retains
\* up to 2 * window samples.
InitP95 ==
    /\ \E n \in 0..(2 * P95Window), k \in 1..MaxStride :
           /\ window = P95Window
           /\ samples = SampleList(n, k)
           /\ recorded = n
           /\ mon_op = NoMonOp
    /\ ContextAwareCacheInit(DefaultMaxSize)
    /\ CapabilityAwareLoadBalancerInit
    /\ callers = NoCallers
    /\ ExecuteDagIdle

NextP95 ==
    \/ CallP95Latency
    \/ \E latency \in Latencies : Record(latency)

SpecP95 == InitP95 /\ [][NextP95]_vars

InitMon ==
    /\ \E w \in 0..MaxWindow : PerformanceMonitorInit(w)
    /\ ContextAwareCacheInit(DefaultMaxSize)
    /\ CapabilityAwareLoadBalancerInit
    /\ callers = NoCallers
    /\ ExecuteDagIdle

NextMon ==
    \/ \E latency \in Latencies : Record(latency)
    \/ CallRegressionDetected

SpecMon == InitMon /\ [][NextMon]_vars

(***************************************************************************)
(* Properties of execute_dag                                               *)
(***************************************************************************)

Ended == pc \in {"returned", "raised_cycle", "raised_task"}

Started(t) == status[t] # "pending"

NoCallbackFailed == \A t \in DOMAIN status : status[t] # "failed"

\* Some dependency name of the dag is no key of the dag.
Dangling == \E t \in DOMAIN dag : ~(dag[t] \subseteq DOMAIN dag)

\* Sequences of n keys in which each key is a dependency of the next one.
Chains(n) == {s \in [1..n -> DOMAIN dag] : \A i \in 1..(n - 1) : s[i] \in dag[s[i + 1]]}

\* A dependency chain that comes back to its first key.
HasCycle == \E n \in 2..(Cardinality(DOMAIN dag) + 1) : \E s \in Chains(n) : s[1] = s[n]

\* Number of tasks on the longest dependency chain of an acyclic dag.
LongestChain ==
    LET lens == {n \in 1..Cardinality(DOMAIN dag) : Chains(n) # {}}
    IN  IF lens = {} THEN 0 ELSE CHOOSE n \in lens : \A m \in lens : m <= n

\* C1: a callback that has started has every dependency completed and
\* recorded, and every task of an earlier wave has completed and is recorded,
\* whatever the order in which the callbacks of a wave start and finish.
C1_StartsAfterEarlierWaves ==
    \A t \in DOMAIN status :
        Started(t) =>
            /\ \A d \in dag[t] :
                   /\ d \in DOMAIN completed
                   /\ status[d] = "done"
                   /\ wave[d] < wave[t]
            /\ \A u \in DOMAIN status :
                   (wave[u] # 0 /\ wave[u] < wave[t]) =>
                       (status[u] = "done" /\ u \in DOMAIN completed)

\* C1 witness: a callback with two dependencies is running in the third wave.
C1_Witness ==
    \E t \in DOMAIN status :
        status[t] = "running" /\ Cardinality(dag[t]) = 2 /\ wave[t] = 3

C4_Terminates ==
    /\ <>Ended
    /\ [](total_batches <= Cardinality(DOMAIN dag))
    /\ [][(pc = "gather" /\ pc' = "loop") =>
              (remaining' \subseteq remaining /\ remaining' # remaining)]_vars

\* C4 witness: a run of at least three tasks that ended after as many waves
\* as it has tasks.
C4_Witness ==
    Ended /\ Cardinality(DOMAIN dag) >= 3 /\ total_batches = Cardinality(DOMAIN dag)

\* The tasks that have a dependency that is no key of the dag, and the tasks
\* that depend on one of them through a chain of dependencies.
Blocked ==
    {t \in DOMAIN dag :
        \E n \in 1..Cardinality(DOMAIN dag) : \E s \in Chains(n) :
            s[n] = t /\ ~(dag[s[1]] \subseteq DOMAIN dag)}

SomeCallbackFailed == \E t \in DOMAIN status : status[t] = "failed"

\* C20: once a callback of a wave has failed, the failure reaches the caller
\* of execute_dag; no mapping is returned, the tasks of the wave are not
\* recorded and no task of a later wave is started.
C20_CallbackFailureFailsRun ==
    /\ [](SomeCallbackFailed =>
             /\ pc \in {"gather", "raised_task"}
             /\ \A t \in DOMAIN status :
                    status[t] = "failed" =>
                        /\ wave[t] = total_batches
                        /\ t \in remaining
                        /\ \A u \in DOMAIN status :
                               wave[u] > wave[t] => ~Started(u))
    /\ [](pc = "raised_task" => SomeCallbackFailed)
    /\ SomeCallbackFailed ~> pc = "raised_task"

\* C20 witness: the run has ended with the failure of a callback of the
\* second wave; a task of that wave returned after it and a task that depends
\* on the failed one was never started.
C20_Witness ==
    /\ pc = "raised_task"
    /\ total_batches = 2
    /\ \E t \in ready : status[t] = "done"
    /\ \E t, u \in DOMAIN status :
           status[t] = "failed" /\ t \in dag[u] /\ status[u] = "pending"

\* C21 as stated: the exception execute_dag raises for a cycle or an
\* undefined dependency is of a type no failure of a callback has, so the
\* type alone tells a structural failure from the failure of a task.
C21_StructuralErrorDistinct ==
    /\ pc = "raised_cycle" => error = CycleError
    /\ pc = "raised_task" => error # CycleError

\* C22: when execute_dag returns, the mapping has exactly the task names of
\* the dag as keys, each with the result of its own callback; every callback
\* was invoked once (a task is scheduled in one wave only and never started
\* again) and total_requests has grown by the number of tasks.
C22_ReturnsEveryResultOnce ==
    /\ [](pc = "returned" =>
             /\ DOMAIN completed = DOMAIN dag
             /\ \A t \in DOMAIN dag :
                    /\ completed[t] = [tool |-> t, ok |-> TRUE]
                    /\ status[t] = "done"
                    /\ wave[t] # 0
             /\ total_requests = Cardinality(DOMAIN dag))
    /\ [][\A t \in DOMAIN status :
              /\ wave[t] # 0 => wave'[t] = wave[t]
              /\ status[t] # "pending" => status'[t] # "pending"
              /\ status[t] = "done" => status'[t] = "done"]_vars

\* C22 witness: a run of four tasks in three waves has returned.
C22_Witness ==
    /\ pc = "returned"
    /\ DOMAIN dag = Names
    /\ total_batches = 3
    /\ \E t \in Names : Cardinality(dag[t]) = 2

\* The tasks whose transitive dependencies can all be satisfied: the least
\* set of tasks that holds every task all of whose dependencies it holds.
RECURSIVE Closure(_)
Closure(S) ==
    LET next == {t \in DOMAIN dag : dag[t] \subseteq S}
    IN  IF next = S THEN S ELSE Closure(next)

Satisfiable == Closure({})

\* C27: when execute_dag raises the cycle error on a dag with a cycle or an
\* undefined dependency, every task whose transitive dependencies can all be
\* satisfied has run before: those tasks and no others are completed and
\* counted in total_requests, and their waves are counted in total_batches.
\* The error is raised before any callback exactly when no task is ready in
\* the first wave.
C27_RunsSatisfiableWavesFirst ==
    pc = "raised_cycle" =>
        /\ HasCycle \/ Dangling
        /\ DOMAIN completed = Satisfiable
        /\ \A t \in Satisfiable : status[t] = "done"
        /\ \A t \in DOMAIN dag \ Satisfiable : status[t] = "pending"
        /\ total_requests = Cardinality(Satisfiable)
        /\ \A t \in Satisfiable : wave[t] \in 1..total_batches
        /\ \A b \in 1..total_batches : \E t \in Satisfiable : wave[t] = b
        /\ total_batches = 0 <=> (\A t \in DOMAIN dag : dag[t] # {})

\* C27 witness: the cycle error was raised after two waves of three tasks
\* on a dag whose fourth task depends on itself.
C27_Witness ==
    /\ pc = "raised_cycle"
    /\ HasCycle
    /\ total_batches = 2
    /\ total_requests = 3

\* C28: when a callback of a wave has failed, total_batches counts that
\* wave, total_requests counts the tasks of the earlier waves only, no task
\* of the wave is recorded in completed, the tasks that returned included,
\* and neither counter ever decreases.
C28_FailedWaveNotCounted ==
    /\ [](SomeCallbackFailed =>
             /\ \E t \in ready : status[t] = "failed"
             /\ \A t \in ready : wave[t] = total_batches /\ t \notin DOMAIN completed
             /\ total_batches >= 1
             /\ total_requests =
                    Cardinality({u \in DOMAIN wave :
                                     wave[u] # 0 /\ wave[u] < total_batches})
             /\ DOMAIN completed =
                    {u \in DOMAIN wave : wave[u] # 0 /\ wave[u] < total_batches})
    /\ [][total_batches' >= total_batches /\ total_requests' >= total_requests]_vars

\* C28 witness: the run has raised the failure of a callback of the second
\* wave after another callback of that wave returned; one task was counted.
C28_Witness ==
    /\ pc = "raised_task"
    /\ total_batches = 2
    /\ total_requests = 1
    /\ \E t \in ready : status[t] = "done"

(***************************************************************************)
(* Properties of ContextAwareCache                                         *)
(***************************************************************************)

LastN(s, n) == SubSeq(s, Len(s) - n + 1, Len(s))

Last(s) == s[Len(s)]

StoreFull == Cardinality(DOMAIN store) = max_size

\* C5: after puts of more than max_size distinct keys and no other call, the
\* store holds exactly the max_size keys put last, in the order they were
\* put, and a get of any key put earlier is absent.
C5_EvictsInInsertionOrder ==
    (fresh /\ Len(put_log) > max_size) =>
        /\ access_order = LastN(put_log, max_size)
        /\ DOMAIN store = Range(LastN(put_log, max_size))
        /\ \A i \in 1..(Len(put_log) - max_size) :
               GetReturn(store, put_log[i]) = "None"

\* C5 witness: max_size = 2 and three distinct keys were put; the first one
\* is gone and the other two are stored.
C5_Witness ==
    /\ fresh
    /\ max_size = 2
    /\ Len(put_log) = 3
    /\ put_log[1] \notin DOMAIN store
    /\ DOMAIN store = {put_log[2], put_log[3]}

\* C6 as stated: a put on a key that is stored overwrites its value and
\* leaves the key at the most-recently-used end of the access order.
C6_PutOverwritePromotes ==
    (cache_op.op = "put" /\ cache_op.present) =>
        /\ store[cache_op.key] = cache_op.value
        /\ Last(access_order) = cache_op.key

\* C7 as stated: a get that hits K adds one to hits, returns the stored value
\* and leaves K at the most-recently-used end; a put of a new key into the
\* full cache right after it evicts the entry whose last put or hit is the
\* oldest, and not K unless max_size is 1.
C7_HitPromotes ==
    [][ /\ \A q \in Queries, c \in Contexts :
               (Get(q, c) /\ CacheKey[q, c] \in DOMAIN store) =>
                   /\ hits' = hits + 1
                   /\ cache_op'.ret = store[CacheKey[q, c]]
                   /\ Last(access_order') = CacheKey[q, c]
        /\ \A q \in Queries, c \in Contexts, v \in Values :
               (/\ Put(q, c, v)
                /\ cache_op.op = "get" /\ cache_op.present
                /\ CacheKey[q, c] \notin DOMAIN store
                /\ StoreFull) =>
                   /\ cache_op'.evicted = LruOf(use_order)
                   /\ max_size # 1 => cache_op'.evicted # cache_op.key
      ]_vars

\* C8 as stated: no get and no put raises, whatever max_size is; a get of a
\* key that is not stored returns None and changes neither the entries nor
\* their order; a put ends with the value stored.
C8_NoOperationRaises ==
    [][ /\ \A q \in Queries, c \in Contexts :
               Get(q, c) =>
                   /\ ~cache_op'.raised
                   /\ CacheKey[q, c] \notin DOMAIN store =>
                          /\ cache_op'.ret = "None"
                          /\ store' = store
                          /\ access_order' = access_order
        /\ \A q \in Queries, c \in Contexts, v \in Values :
               Put(q, c, v) =>
                   /\ ~cache_op'.raised
                   /\ CacheKey[q, c] \in DOMAIN store'
                   /\ store'[CacheKey[q, c]] = v
      ]_vars

\* C9 as stated: the store never holds more than max_size entries, and a put
\* of a new key into a store that holds max_size entries removes exactly the
\* least recently used entry and then inserts the key.
C9_BoundedLruEviction ==
    /\ [](Cardinality(DOMAIN store) <= max_size)
    /\ [][ \A q \in Queries, c \in Contexts, v \in Values :
               (Put(q, c, v) /\ CacheKey[q, c] \notin DOMAIN store /\ StoreFull) =>
                   /\ LruOf(use_order) \in DOMAIN store
                   /\ DOMAIN store' =
                          (DOMAIN store \ {LruOf(use_order)}) \cup {CacheKey[q, c]}
         ]_vars

\* Two contexts hold the same key/value pairs.
SamePairs(c1, c2) == Range(c1) = Range(c2)

\* C23: the cache key depends on the key/value pairs of the context only:
\* a get with the query of the last put and a context that holds the same
\* pairs as the context of that put, in any order, returns the value put.
C23_KeyIgnoresInsertionOrder ==
    /\ \A q \in Queries, c1 \in Contexts, c2 \in Contexts :
           SamePairs(c1, c2) => CacheKey[q, c1] = CacheKey[q, c2]
    /\ (/\ cache_op.op = "get"
        /\ last_put # NoPut
        /\ cache_op.query = last_put.query
        /\ SamePairs(cache_op.context, last_put.context)) =>
           (cache_op.present /\ cache_op.ret = last_put.value)

\* C23 witness: a get returned the value of the last put, made with the
\* same pairs in the other order.
C23_Witness ==
    /\ cache_op.op = "get"
    /\ cache_op.query = last_put.query
    /\ cache_op.context # last_put.context
    /\ SamePairs(cache_op.context, last_put.context)
    /\ cache_op.ret = last_put.value
    /\ cache_op.ret # "None"

\* C24 as stated: entries are separated by context and by query: a put for
\* (q, c) does not make a get miss no more for another query or for a context
\* whose key/value pairs differ from those of c.
C24_SeparatedByContext ==
    [][\A q \in Queries, c \in Contexts, v \in Values :
           Put(q, c, v) =>
               \A q2 \in Queries, c2 \in Contexts :
                   (/\ q2 # q \/ ~SamePairs(c, c2)
                    /\ GetReturn(store, CacheKey[q2, c2]) = "None")
                       => GetReturn(store', CacheKey[q2, c2]) = "None"]_vars

\* |x - a / b| is at most half a unit in the last place of the float x.
NearestTo(x, a, b) ==
    IF a = 0 THEN x = FloatZero
    ELSE LET xb2 == BigMulSmall(x.m, 2 * b, 0)
             a2  == ShiftLeft(<<2 * a>>, 0 - x.e)
         IN  /\ BitLen(x.m) = 53
             /\ ~BigLess(BigAdd(a2, <<b>>, 0), xb2)
             /\ ~BigLess(BigAdd(xb2, <<b>>, 0), a2)

\* C25: hits + misses is the number of get calls made and a put changes
\* neither counter; hit_rate is 0 when no get was made and otherwise the
\* float of hits / (hits + misses); 3 hits and 1 miss give 0.75.
C25_HitRate ==
    /\ [](/\ hits + misses = gets
          /\ gets = 0 => HitRate(hits, misses) = FloatZero
          /\ gets # 0 => NearestTo(HitRate(hits, misses), hits, hits + misses)
          /\ (hits = 3 /\ misses = 1) => HitRate(hits, misses) = Float(75))
    /\ [][cache_op'.op = "put" => (hits' = hits /\ misses' = misses)]_vars

\* C25 witness: three hits and one miss were counted and a put was made
\* after them.
C25_Witness ==
    /\ hits = 3
    /\ misses = 1
    /\ cache_op.op = "put"
    /\ HitRate(hits, misses) = Float(75)

(***************************************************************************)
(* Properties of CapabilityAwareLoadBalancer                               *)
(***************************************************************************)

\* C10: the server select_server returns has every required capability,
\* whatever the loads are.
C10_SelectedHasCapabilities ==
    (lb_op.op = "select" /\ lb_op.ret # "None") =>
        /\ lb_op.ret \in DOMAIN servers
        /\ lb_op.arg \subseteq servers[lb_op.ret].capabilities

\* C10 witness: {search, classify} was required and a server was returned
\* while a server that has search alone carries a smaller load.
C10_Witness ==
    /\ lb_op.op = "select"
    /\ lb_op.arg = {"search", "classify"}
    /\ lb_op.ret # "None"
    /\ \E n \in DOMAIN servers :
           /\ servers[n].capabilities = {"search"}
           /\ servers[n].current_load < servers[lb_op.ret].current_load - 1

\* The registered servers that support every capability of required_caps.
Qualifying(required_caps) ==
    {n \in DOMAIN servers : required_caps \subseteq servers[n].capabilities}

\* The place of a server in the order of first registration.
Position(n) == CHOOSE i \in 1..Len(server_order) : server_order[i] = n

\* C11: when some registered server supports all required capabilities,
\* select_server returns a qualifying server whose current_load is minimal
\* among the qualifying ones, the earliest registered of them on a tie (a
\* name registered again keeps the place of its first registration); it adds
\* exactly one to that server's current_load and total_handled and leaves
\* every other record as it was.
C11_SelectsLeastLoaded ==
    [][(lb_op'.op = "select" /\ Qualifying(lb_op'.arg) # {}) =>
          LET q == Qualifying(lb_op'.arg)
              r == lb_op'.ret
          IN  /\ r \in q
              /\ \A n \in q :
                     /\ servers[r].current_load <= servers[n].current_load
                     /\ servers[n].current_load = servers[r].current_load
                            => Position(r) <= Position(n)
              /\ DOMAIN servers' = DOMAIN servers
              /\ servers'[r] =
                     [capabilities  |-> servers[r].capabilities,
                      current_load  |-> servers[r].current_load + 1,
                      total_handled |-> servers[r].total_handled + 1]
              /\ \A n \in DOMAIN servers \ {r} : servers'[n] = servers[n]
              /\ server_order' = server_order]_vars

\* C11 witness: two servers qualified and select_server returned the one
\* registered later, whose load was the smaller one.
C11_Witness ==
    /\ lb_op.op = "select"
    /\ lb_op.ret # "None"
    /\ \E n \in Qualifying(lb_op.arg) :
           /\ Position(n) < Position(lb_op.ret)
           /\ servers[lb_op.ret].current_load - 1 < servers[n].current_load

\* C12: current_load of every server is at least 0 in every reachable state;
\* release of a server whose current_load is 0 leaves it at 0, and release of
\* a name that is not registered changes no record.
C12_LoadNeverNegative ==
    /\ [](\A n \in DOMAIN servers : servers[n].current_load >= 0)
    /\ [][lb_op'.op = "release" =>
             LET n == lb_op'.arg
             IN  /\ (n \in DOMAIN servers /\ servers[n].current_load = 0)
                        => servers' = servers
                 /\ n \notin DOMAIN servers
                        => (servers' = servers /\ server_order' = server_order)]_vars

\* C12 witness: release was called on a registered server that has handled
\* nothing since its registration, so its load was 0 before the call.
C12_Witness ==
    /\ lb_op.op = "release"
    /\ lb_op.arg \in DOMAIN servers
    /\ servers[lb_op.arg].total_handled = 0
    /\ servers[lb_op.arg].current_load = 0
    /\ \E n \in DOMAIN servers : servers[n].current_load > 0

\* C13 as stated: total_handled of no server ever decreases from one state
\* to the next.
C13_Original ==
    [][\A n \in DOMAIN servers :
           servers'[n].total_handled >= servers[n].total_handled]_vars

\* C13: total_handled of a server never decreases from one state to the next
\* across select_server and release calls and across register_server of
\* another name; register_server of the server's own name sets it to 0.
C13_HandledResetOnlyByRegister ==
    [][\A n \in DOMAIN servers :
           IF lb_op'.op = "register" /\ lb_op'.arg = n
           THEN servers'[n].total_handled = 0
           ELSE servers'[n].total_handled >= servers[n].total_handled]_vars

\* C13 witness: a server has handled two requests and both were released.
C13_Witness ==
    /\ lb_op.op = "release"
    /\ lb_op.arg \in DOMAIN servers
    /\ servers[lb_op.arg].total_handled = 2
    /\ servers[lb_op.arg].current_load = 0

\* The callers that were given server n and have not released it yet.
InFlight(n) ==
    {c \in DOMAIN callers : callers[c].pc = "suspended" /\ callers[c].srv = n}

\* C14: with callers that each select, suspend and release once the server
\* they were given, and no register_server after the first select, under
\* every interleaving the current_load of each server is the number of
\* callers between their select and their release, and every current_load is
\* 0 once all callers have finished.
C14_LoadCountsCallersInFlight ==
    /\ \A n \in DOMAIN servers : servers[n].current_load = Cardinality(InFlight(n))
    /\ (\A c \in DOMAIN callers : callers[c].pc = "done")
           => \A n \in DOMAIN servers : servers[n].current_load = 0

\* C14 witness: two callers are suspended on the same server after a third
\* one has released it.
C14_Witness ==
    \E n \in DOMAIN servers :
        /\ Cardinality(InFlight(n)) = 2
        /\ \E c \in DOMAIN callers : callers[c].pc = "done" /\ callers[c].srv = n

\* C15: when no registered server supports all required capabilities, and so
\* when none is registered, select_server returns None without raising and
\* changes no record.
C15_NoCandidateReturnsNone ==
    [][(lb_op'.op = "select" /\ Qualifying(lb_op'.arg) = {}) =>
          /\ lb_op'.ret = "None"
          /\ servers' = servers
          /\ server_order' = server_order]_vars

\* C15 witness: select_server returned None while a server that lacks a
\* required capability is registered and carries load.
C15_Witness ==
    /\ lb_op.op = "select"
    /\ lb_op.ret = "None"
    /\ \E n \in DOMAIN servers :
           /\ ~(lb_op.arg \subseteq servers[n].capabilities)
           /\ servers[n].current_load > 0

(***************************************************************************)
(* Properties of PerformanceMonitor                                        *)
(***************************************************************************)

RECURSIVE SumOf(_)
SumOf(s) == IF s = <<>> THEN 0 ELSE Head(s) + SumOf(Tail(s))

\* The n samples that end k places before the end of the retained ones.
SamplesBefore(k, n) == [i \in 1..n |-> samples[Len(samples) - k - n + i]]

\* In decimal arithmetic: at least 2*window samples are retained and the
\* mean of the last window samples is more than 1.2 times the mean of the
\* window samples before them.  Both means are of window samples, so the
\* sums compare as the means do.
RegressionInDecimal ==
    /\ window >= 1
    /\ Len(samples) >= 2 * window
    /\ SumOf(SamplesBefore(0, window)) * 10 > SumOf(SamplesBefore(window, window)) * 12

\* C16: regression_detected returns true if and only if at least 2*window
\* samples are retained and the mean of the most recent window samples is
\* strictly greater than 1.2 times the mean of the window samples before
\* them; with window 2 the samples 1.0, 1.0, 1.2, 1.2 give false and
\* 1.0, 1.0, 1.21, 1.21 give true.
C16_RegressionIffMeanExceeds ==
    mon_op.op = "regression_detected" =>
        /\ mon_op.ret = "true" <=> RegressionInDecimal
        /\ (window = 2 /\ samples = <<100, 100, 120, 120>>) => mon_op.ret = "false"
        /\ (window = 2 /\ samples = <<100, 100, 121, 121>>) => mon_op.ret = "true"

\* The smaller of two numbers.
Min(a, b) == IF a < b THEN a ELSE b

\* C17: after n record calls the retained samples are the most recent
\* min(n, 2*window) recorded values in call order, for any window: every
\* record call appends its value and keeps the last min(n, 2*window).
C17_RetainsMostRecent ==
    /\ [](Len(samples) = Min(recorded, 2 * window))
    /\ [][mon_op'.op = "record" =>
             \E latency \in Latencies :
                 samples' = LastN(Append(samples, latency),
                                  Min(recorded', 2 * window))]_vars

\* C18: regression_detected returns false, and does not raise, whenever
\* fewer than 2*window samples have been recorded, whatever their values.
C18_FalseBeforeTwoWindows ==
    (mon_op.op = "regression_detected" /\ recorded < 2 * window) =>
        mon_op.ret = "false"

\* C18 witness: regression_detected was called with three samples recorded
\* for a window of two, the last of them 1.8 after 1.0.
C18_Witness ==
    /\ mon_op.op = "regression_detected"
    /\ window = 2
    /\ samples = <<100, 100, 180>>
    /\ recorded = 3

\* C26: p95_latency returns 0 when no samples are retained; otherwise it
\* returns the retained sample that has floor(0.95 * count) samples before it
\* in ascending order, an index that is inside the list for every count, and
\* it changes neither the retained samples nor their order.
C26_P95Latency ==
    /\ [](mon_op.op = "p95_latency" =>
             LET n == Len(samples)
                 v == mon_op.latency
                 k == (95 * n) \div 100
             IN  /\ mon_op.ret = "float"
                 /\ n = 0 => v = 0
                 /\ n > 0 =>
                        /\ k < n
                        /\ \E i \in 1..n : samples[i] = v
                        /\ Cardinality({i \in 1..n : samples[i] < v}) <= k
                        /\ k < Cardinality({i \in 1..n : samples[i] <= v}))
    /\ [][mon_op'.op = "p95_latency" => samples' = samples]_vars

\* C26 witness: p95_latency was read with 21 unsorted samples retained, within
\* 2 * window, and returned a sample that is not the largest one.
C26_Witness ==
    /\ mon_op.op = "p95_latency"
    /\ Len(samples) = 21
    /\ Len(samples) <= 2 * window
    /\ \E i \in 1..20 : samples[i] > samples[i + 1]
    /\ \E i \in 1..21 : samples[i] > mon_op.latency

\* C29: current_load of every server is at most its total_handled in every
\* reachable state, whatever the sequence of register_server, select_server
\* and release calls.
C29_LoadAtMostHandled ==
    \A n \in DOMAIN servers : servers[n].current_load <= servers[n].total_handled

\* C29 witness: a server was given two requests and one of them was released,
\* while some server has been given as many requests as a server is given.
C29_Witness ==
    /\ lb_op.op = "release"
    /\ lb_op.arg \in DOMAIN servers
    /\ servers[lb_op.arg].current_load = 1
    /\ servers[lb_op.arg].total_handled = 2
    /\ \E n \in DOMAIN servers : servers[n].total_handled = MaxHandled

\* C30: after servers were registered and select_server was then called any
\* number of times with the same required capabilities C and no release, the
\* current_load of any two servers that support C differ by at most one.
C30_LoadsBalanced ==
    lb_op.op = "select" =>
        \A n, m \in DOMAIN servers :
            (/\ HasCapabilities(lb_op.arg, servers[n])
             /\ HasCapabilities(lb_op.arg, servers[m]))
                => servers[n].current_load - servers[m].current_load <= 1

\* C30 witness: two servers support the required capabilities and three
\* select_server calls gave them two requests and one request.
C30_Witness ==
    /\ lb_op.op = "select"
    /\ Len(server_order) = 2
    /\ \A n \in DOMAIN servers : HasCapabilities(lb_op.arg, servers[n])
    /\ \E n, m \in DOMAIN servers :
           /\ servers[n].current_load = 2
           /\ servers[m].current_load = 1

====
